---------------------------- MODULE Spec2Model ----------------------------
(***************************************************************************)
(* Model of streamlit_app.py: the boundary-resolution and amenity          *)
(* aggregation script.  One run of the script is one "cycle"; Streamlit    *)
(* re-runs the script top to bottom whenever a widget changes.  The only   *)
(* state that survives a rerun is the widget values and the st.cache_data  *)
(* memo table of fetch_amenities.                                          *)
(*                                                                         *)
(* Coordinates are integers in units of 0.01 degree, so the buffer radius  *)
(* 0.01 of the source is 1.  Polygons are closed clockwise rings, the      *)
(* orientation shapely's buffer() produces; a buffer is modelled by its    *)
(* quad_segs = 1 approximation (the four axis vertices of the circle).     *)
(***************************************************************************)
EXTENDS Integers, Sequences, FiniteSets, TLC

VARIABLES
    pc,                  \* position of the running script
    cycle,               \* number of the current script run
    location_method,     \* radio widget
    address,             \* text_input widget
    clicked_point,       \* map_click.get("last_clicked")
    selected_categories, \* multiselect widget, in selection order
    specific_amenity,    \* selectbox widget
    Boundary,            \* the script's Boundary variable
    boundary_wkt,        \* the script's boundary_wkt variable
    status,              \* location messages written to the sidebar this run
    outcome,             \* what the external lookup answered this run
    assigned,            \* this run has assigned a geometry to Boundary
    idx,                 \* position of the for loop over selected_categories
    filtered_amenities,  \* the script's filtered_amenities list
    all_amenities,       \* the script's all_amenities frame
    cache,               \* st.cache_data memo table of fetch_amenities
    upstream_calls,      \* key -> number of ox.features_from_polygon calls
    fetch_log            \* fetch_amenities calls of this run, in call order

vars == <<pc, cycle, location_method, address, clicked_point,
          selected_categories, specific_amenity, Boundary, boundary_wkt,
          status, outcome, assigned, idx, filtered_amenities,
          all_amenities, cache, upstream_calls, fetch_log>>

-----------------------------------------------------------------------------
(* Bounds of the model *)

MaxCycles == 2
MaxSelected == 2

-----------------------------------------------------------------------------
(* Values *)

\* Python's None, for a variable that holds a geometry
None == [type |-> "None", coords |-> <<>>]

\* boundary_wkt before line 111 has run
Unset == [tag |-> "unset", text |-> <<>>]

\* a missing cell of a frame
NaN == "NaN"

default_address == "San Francisco, CA"

\* default_location = [37.7749, -122.4194], in units of 0.01 degree
default_location == [lat |-> 3777, lng |-> -12242]

BufferRadius == 1

\* A tag filter: the OSM key, and either the set of accepted values or
\* (any = TRUE, the source's True) the mere presence of the key.
Tags(k, a, m) == [key |-> k, any |-> a, match |-> m]

amenity_categories ==
    [c \in {"Entertainment", "Civic", "Historic", "Tourism",
            "FB (Food & Beverage)"} |->
        CASE c = "Entertainment" ->
                 Tags("amenity", FALSE,
                      {"arts_centre", "cinema", "nightclub", "theatre"})
          [] c = "Civic" ->
                 Tags("amenity", FALSE,
                      {"courthouse", "fire_station", "post_office"})
          [] c = "Historic" -> Tags("historic", TRUE, {})
          [] c = "Tourism" -> Tags("tourism", TRUE, {})
          [] c = "FB (Food & Beverage)" ->
                 Tags("amenity", FALSE, {"cafe", "restaurant", "pub"})]

default_categories == <<"FB (Food & Beverage)">>

specific_options == <<"Transit Stations", "Libraries", "Restaurants">>

specific_tags(s) ==
    IF s = "Transit Stations" THEN Tags("amenity", FALSE, {"bus_station"})
    ELSE IF s = "Libraries" THEN Tags("amenity", FALSE, {"library"})
    ELSE Tags("amenity", FALSE, {"restaurant"})

-----------------------------------------------------------------------------
(* Geometry (shapely) *)

SetMin(S) == CHOOSE m \in S : \A n \in S : m <= n
SetMax(S) == CHOOSE m \in S : \A n \in S : m >= n

\* sg.Point(x, y)
Point(x, y) == [type |-> "Point", coords |-> <<<<x, y>>>>]

Polygon(ring) == [type |-> "Polygon", coords |-> ring]

Box(xmin, ymin, xmax, ymax) ==
    Polygon(<<<<xmin, ymin>>, <<xmin, ymax>>, <<xmax, ymax>>,
              <<xmax, ymin>>, <<xmin, ymin>>>>)

\* Point.buffer(r): the ring starts east of the centre and runs clockwise
buffer(p, r) ==
    LET x == p.coords[1][1]
        y == p.coords[1][2]
    IN  Polygon(<<<<x + r, y>>, <<x, y - r>>, <<x - r, y>>,
                  <<x, y + r>>, <<x + r, y>>>>)

Xs(g) == {g.coords[i][1] : i \in 1..Len(g.coords)}
Ys(g) == {g.coords[i][2] : i \in 1..Len(g.coords)}

\* geometry.centroid of a point, or of a polygon symmetric about its centre
centroid(g) ==
    IF g.type = "Point" THEN g.coords[1]
    ELSE <<(SetMin(Xs(g)) + SetMax(Xs(g))) \div 2,
           (SetMin(Ys(g)) + SetMax(Ys(g))) \div 2>>

\* GeoSeries.unary_union of polygons that are nested boxes: the outermost box
unary_union(polys) ==
    LET xs == UNION {Xs(polys[i]) : i \in 1..Len(polys)}
        ys == UNION {Ys(polys[i]) : i \in 1..Len(polys)}
    IN  Box(SetMin(xs), SetMin(ys), SetMax(xs), SetMax(ys))

Cross(a, b, p) ==
    (b[1] - a[1]) * (p[2] - a[2]) - (b[2] - a[2]) * (p[1] - a[1])

\* the point p lies in the convex clockwise polygon g, border included
Covers(g, p) ==
    \A i \in 1..(Len(g.coords) - 1) :
        Cross(g.coords[i], g.coords[i + 1], p) <= 0

\* the feature geometry f touches the polygon g
Intersects(g, f) ==
    \/ Covers(g, centroid(f))
    \/ \E i \in 1..Len(f.coords) : Covers(g, f.coords[i])

\* Boundary.wkt: the geometry type and the flat list of coordinates
RECURSIVE Flatten(_)
Flatten(ring) ==
    IF ring = <<>> THEN <<>>
    ELSE <<ring[1][1], ring[1][2]>> \o Flatten(Tail(ring))

to_wkt(g) ==
    [tag |-> IF g.type = "Point" THEN "POINT" ELSE "POLYGON",
     text |-> Flatten(g.coords)]

\* wkt.loads
wkt_loads(w) ==
    [type |-> IF w.tag = "POINT" THEN "Point" ELSE "Polygon",
     coords |-> [i \in 1..(Len(w.text) \div 2) |->
                    <<w.text[2 * i - 1], w.text[2 * i]>>]]

-----------------------------------------------------------------------------
(* Frames (pandas / geopandas).  A row keeps the OSM id of its feature so    *)
(* that copies of one feature can be told apart from distinct features; the  *)
(* id is the index of the upstream frame, not a column.                      *)

Frame(cols, rows) == [columns |-> cols, rows |-> rows]

\* gpd.GeoDataFrame()
EmptyGeoDataFrame == Frame({}, <<>>)

\* DataFrame.empty
empty(df) == df.rows = <<>>

\* variant: df['category'] = df['category'].fillna(value)
set_category_fillna(df, value) ==
    Frame(df.columns \cup {"category"},
          [i \in 1..Len(df.rows) |->
              IF df.rows[i].category = NaN
              THEN [df.rows[i] EXCEPT !.category = value]
              ELSE df.rows[i]])

\* df['category'] = value
set_category(df, value) ==
    Frame(df.columns \cup {"category"},
          [i \in 1..Len(df.rows) |-> [df.rows[i] EXCEPT !.category = value]])

RECURSIVE ConcatRows(_)
ConcatRows(frames) ==
    IF frames = <<>> THEN <<>>
    ELSE frames[1].rows \o ConcatRows(Tail(frames))

RECURSIVE Reverse(_)
Reverse(q) == IF q = <<>> THEN <<>> ELSE Append(Reverse(Tail(q)), q[1])

\* variant: the frames are concatenated last to first
pd_concat_reversed(frames) ==
    Frame(UNION {frames[i].columns : i \in 1..Len(frames)},
          ConcatRows(Reverse(frames)))

RECURSIVE DropDuplicates(_, _)
DropDuplicates(rows, seen) ==
    IF rows = <<>> THEN <<>>
    ELSE IF rows[1].id \in seen THEN DropDuplicates(Tail(rows), seen)
    ELSE <<rows[1]>> \o DropDuplicates(Tail(rows), seen \cup {rows[1].id})

\* variant: pd.concat(...) followed by dropping repeated features
pd_concat_dedup(frames) ==
    Frame(UNION {frames[i].columns : i \in 1..Len(frames)},
          DropDuplicates(ConcatRows(frames), {}))

\* pd.concat(frames, ignore_index=True)
pd_concat(frames) ==
    Frame(UNION {frames[i].columns : i \in 1..Len(frames)}, ConcatRows(frames))

\* df["x"] = df.geometry.centroid.x ; df["y"] = df.geometry.centroid.y
add_centroids(df) ==
    Frame(df.columns \cup {"x", "y"},
          [i \in 1..Len(df.rows) |->
              [id |-> df.rows[i].id,
               geometry |-> df.rows[i].geometry,
               category |-> df.rows[i].category,
               x |-> centroid(df.rows[i].geometry)[1],
               y |-> centroid(df.rows[i].geometry)[2]]])

\* variant: pd.DataFrame()
EmptyAmenities_bare == Frame({}, <<>>)

\* pd.DataFrame(columns=["x", "y"])
EmptyAmenities == Frame({"x", "y"}, <<>>)

\* lines 179-187
merge_amenities(filtered) ==
    IF filtered # <<>> THEN add_centroids(pd_concat(filtered))
    ELSE EmptyAmenities

-----------------------------------------------------------------------------
(* The external services (osmnx): a small fixed world *)

Addresses == {default_address, "Atlantis"}

ClickPoints == {[lat |-> 3776, lng |-> -12243], [lat |-> 3700, lng |-> -12200]}

NoClick == [clicked |-> FALSE, lat |-> 0, lng |-> 0]

Click(p) == [clicked |-> TRUE, lat |-> p.lat, lng |-> p.lng]

CityPolygon == Box(-12252, 3770, -12235, 3783)

\* administrative polygons by (lng, lat) of the queried point
AdminPolygons ==
    <<Box(-12244, 3775, -12242, 3777), Box(-12246, 3773, -12240, 3779)>>

Feature(i, g, t) == [id |-> i, geometry |-> g, tags |-> t]

OSM ==
    <<Feature(1, Point(-12243, 3776),
              [amenity |-> "restaurant", category |-> "osm_food"]),
      Feature(2, Point(-12242, 3776), [amenity |-> "cafe"]),
      Feature(3, Point(-12243, 3777), [amenity |-> "library"]),
      Feature(4, Point(-12250, 3772), [amenity |-> "bus_station"]),
      Feature(5, Box(-12245, 3775, -12243, 3777),
              [tourism |-> "museum", historic |-> "building"]),
      Feature(6, Point(-12200, 3700), [amenity |-> "pub"])>>

Reply(ok, geoms) == [ok |-> ok, geoms |-> geoms]

\* ox.geocode_to_gdf(address): the place polygon, or an exception
geocode_replies(a) ==
    {Reply(FALSE, <<>>)}
        \cup (IF a = default_address THEN {Reply(TRUE, <<CityPolygon>>)} ELSE {})

\* ox.features_from_point(point, tags={"boundary": "administrative"}), with
\* point = (lat, lon): the polygons around the point, none, or an exception
features_from_point_replies(point) ==
    LET polys == SelectSeq(AdminPolygons,
                           LAMBDA g : Covers(g, <<point[2], point[1]>>))
    IN  {Reply(FALSE, <<>>), Reply(TRUE, polys)}

Matches(f, tags) ==
    /\ tags.key \in DOMAIN f.tags
    /\ tags.any \/ f.tags[tags.key] \in tags.match

Row(f) ==
    [id |-> f.id, geometry |-> f.geometry,
     category |-> IF "category" \in DOMAIN f.tags THEN f.tags.category ELSE NaN]

\* ox.features_from_polygon(boundary, tags): the matching features in the
\* boundary, in upstream order, or an exception
features_from_polygon_replies(boundary, tags) ==
    LET found == SelectSeq(OSM, LAMBDA f : Matches(f, tags)
                                           /\ Intersects(boundary, f.geometry))
        rows == [i \in 1..Len(found) |-> Row(found[i])]
        cols == {"geometry"}
                  \cup UNION {DOMAIN found[i].tags : i \in 1..Len(found)}
    IN  {[ok |-> FALSE, frame |-> EmptyGeoDataFrame],
         [ok |-> TRUE,
          frame |-> IF rows = <<>> THEN EmptyGeoDataFrame ELSE Frame(cols, rows)]}

-----------------------------------------------------------------------------
(* The script *)

\* the branch assigned b to Boundary
Resolved(b, msgs) == [Boundary |-> b, assigned |-> TRUE, status |-> msgs]

\* the branch left Boundary as it was
Unresolved(current, msgs) ==
    [Boundary |-> current, assigned |-> FALSE, status |-> msgs]

\* variant: Boundary kept from the previous run
initial_boundary_kept(previous) == previous

\* line 32: Boundary = None at the top of every run
initial_boundary(previous) == None

\* variant: a failed geocode substitutes a buffer around default_location
text_input_branch_fallback(current, reply) ==
    IF reply.ok
    THEN Resolved(reply.geoms[1], {"success: Location found"})
    ELSE Resolved(buffer(Point(default_location.lng, default_location.lat),
                         BufferRadius),
                  {"warning: Failed to geocode the address"})

\* lines 39-53: the Text Input branch
text_input_branch(current, reply) ==
    IF reply.ok
    THEN Resolved(reply.geoms[1], {"success: Location found"})
    ELSE Unresolved(current, {"warning: Failed to geocode the address"})

\* variant: the fallback buffers sg.Point(lat, lon)
map_click_branch_swapped(current, clicked, reply) ==
    IF ~clicked.clicked
    THEN Unresolved(current, {"info: Click on the map to select a location"})
    ELSE LET lat == clicked.lat
             lon == clicked.lng
         IN  IF reply.ok /\ reply.geoms # <<>>
             THEN Resolved(unary_union(reply.geoms),
                           {"success: Coordinates selected",
                            "success: Boundary found for clicked point"})
             ELSE Resolved(buffer(Point(lat, lon), BufferRadius),
                           {"success: Coordinates selected",
                            IF reply.ok
                            THEN "warning: No administrative boundary found"
                            ELSE "warning: Failed to find an administrative boundary"})

\* lines 76-104: the Map Click branch
map_click_branch(current, clicked, reply) ==
    IF ~clicked.clicked
    THEN Unresolved(current, {"info: Click on the map to select a location"})
    ELSE LET lat == clicked.lat
             lon == clicked.lng
         IN  IF ~reply.ok
             THEN Resolved(buffer(Point(lon, lat), BufferRadius),
                           {"success: Coordinates selected",
                            "warning: Failed to find an administrative boundary"})
             ELSE IF reply.geoms # <<>>
             THEN Resolved(unary_union(reply.geoms),
                           {"success: Coordinates selected",
                            "success: Boundary found for clicked point"})
             ELSE Resolved(buffer(Point(lon, lat), BufferRadius),
                           {"success: Coordinates selected",
                            "warning: No administrative boundary found"})

\* variant: a failed query is returned but not stored
fetch_amenities_error_uncached(memo, wkt, tags, reply) ==
    LET key == <<wkt, tags>>
    IN  IF key \in DOMAIN memo
        THEN [value |-> memo[key], memo |-> memo, source |-> "cache",
              raised |-> FALSE]
        ELSE IF ~reply.ok
        THEN [value |-> EmptyGeoDataFrame, memo |-> memo, source |-> "error",
              raised |-> FALSE]
        ELSE [value |-> reply.frame,
              memo |-> [k \in DOMAIN memo \cup {key} |->
                           IF k = key THEN reply.frame ELSE memo[k]],
              source |-> "upstream", raised |-> FALSE]

\* variant: no try/except around the query
fetch_amenities_raising(memo, wkt, tags, reply) ==
    LET key == <<wkt, tags>>
    IN  IF key \in DOMAIN memo
        THEN [value |-> memo[key], memo |-> memo, source |-> "cache",
              raised |-> FALSE]
        ELSE IF ~reply.ok
        THEN [value |-> EmptyGeoDataFrame, memo |-> memo, source |-> "error",
              raised |-> TRUE]
        ELSE [value |-> reply.frame,
              memo |-> [k \in DOMAIN memo \cup {key} |->
                           IF k = key THEN reply.frame ELSE memo[k]],
              source |-> "upstream", raised |-> FALSE]

\* lines 141-151: fetch_amenities under @st.cache_data.  The memo table is
\* keyed by the argument values; whatever the body returns is stored, the
\* empty frame of the except branch included.
fetch_amenities(memo, wkt, tags, reply) ==
    LET key == <<wkt, tags>>
    IN  IF key \in DOMAIN memo
        THEN [value |-> memo[key], memo |-> memo, source |-> "cache",
              raised |-> FALSE]
        ELSE LET value == IF reply.ok THEN reply.frame ELSE EmptyGeoDataFrame
             IN  [value |-> value,
                  memo |-> [k \in DOMAIN memo \cup {key} |->
                               IF k = key THEN value ELSE memo[k]],
                  source |-> IF reply.ok THEN "upstream" ELSE "error",
                  raised |-> FALSE]

\* lines 160-162 and 173-175: label a non-empty result and keep it
label_and_append(filtered, df, name) ==
    IF ~empty(df) THEN Append(filtered, set_category(df, name)) ELSE filtered

\* variant: the loop stops one category early
loop_done_early(i, selected) == i >= Len(selected)

\* line 157: the for loop over selected_categories has run out
loop_done(i, selected) == i > Len(selected)

Called(calls, key) ==
    [k \in DOMAIN calls \cup {key} |->
        IF k = key
        THEN (IF k \in DOMAIN calls THEN calls[k] ELSE 0) + 1
        ELSE calls[k]]

LogEntry(name, wkt, tags, r) ==
    [name |-> name, key |-> <<wkt, tags>>, rows |-> r.value.rows,
     source |-> r.source]

\* one call of fetch_amenities and the statements that follow it
FetchStep(name, tags, next_pc) ==
    \E reply \in features_from_polygon_replies(wkt_loads(boundary_wkt), tags) :
        LET r == fetch_amenities(cache, boundary_wkt, tags, reply)
        IN  /\ cache' = r.memo
            /\ upstream_calls' =
                   IF r.source = "cache" THEN upstream_calls
                   ELSE Called(upstream_calls, <<boundary_wkt, tags>>)
            /\ fetch_log' = Append(fetch_log, LogEntry(name, boundary_wkt, tags, r))
            /\ IF r.raised
               THEN /\ pc' = "error"
                    /\ UNCHANGED <<filtered_amenities, idx>>
               ELSE /\ pc' = next_pc
                    /\ filtered_amenities' =
                           label_and_append(filtered_amenities, r.value, name)
                    /\ idx' = idx + 1

-----------------------------------------------------------------------------
(* Inputs *)

\* the categories the user picks from: one list-valued filter and one
\* presence filter of amenity_categories
SelectableCategories == {"FB (Food & Beverage)", "Tourism"}

RECURSIVE SeqsUpTo(_, _)
SeqsUpTo(S, n) ==
    IF n = 0 THEN {<<>>}
    ELSE LET shorter == SeqsUpTo(S, n - 1)
         IN  shorter \cup
             {Append(q, c) : q \in {t \in shorter : Len(t) = n - 1},
                             c \in S}

Range(q) == {q[i] : i \in 1..Len(q)}

\* st.multiselect returns each chosen option once, in the order chosen
Selections ==
    {q \in SeqsUpTo(SelectableCategories, MaxSelected) :
        Cardinality(Range(q)) = Len(q)}

-----------------------------------------------------------------------------
(* Actions *)

Init ==
    /\ pc = "location"
    /\ cycle = 1
    /\ location_method = "Text Input"
    /\ address = default_address
    /\ clicked_point = NoClick
    /\ selected_categories = default_categories
    /\ specific_amenity = specific_options[1]
    /\ Boundary = None
    /\ boundary_wkt = Unset
    /\ status = {}
    /\ outcome = "none"
    /\ assigned = FALSE
    /\ idx = 1
    /\ filtered_amenities = <<>>
    /\ all_amenities = EmptyGeoDataFrame
    /\ cache = <<>>
    /\ upstream_calls = <<>>
    /\ fetch_log = <<>>

Located(r, result) ==
    /\ Boundary' = r.Boundary
    /\ status' = r.status
    /\ outcome' = result
    /\ assigned' = r.assigned
    /\ pc' = "gate"
    /\ UNCHANGED <<cycle, location_method, address, clicked_point,
                   selected_categories, specific_amenity, boundary_wkt, idx,
                   filtered_amenities, all_amenities, cache, upstream_calls,
                   fetch_log>>

\* lines 39-53
TextInput ==
    /\ pc = "location"
    /\ location_method = "Text Input"
    /\ \E reply \in geocode_replies(address) :
           Located(text_input_branch(Boundary, reply),
                   IF reply.ok THEN "geocode_ok" ELSE "geocode_fail")

\* lines 56-104
MapClick ==
    /\ pc = "location"
    /\ location_method = "Map Click"
    /\ \E reply \in features_from_point_replies(
                        <<clicked_point.lat, clicked_point.lng>>) :
           Located(map_click_branch(Boundary, clicked_point, reply),
                   IF ~clicked_point.clicked THEN "no_click"
                   ELSE IF ~reply.ok THEN "admin_error"
                   ELSE IF reply.geoms # <<>> THEN "admin_found"
                   ELSE "admin_empty")

\* lines 107-111
BoundaryGate ==
    /\ pc = "gate"
    /\ IF Boundary = None
       THEN /\ pc' = "stopped"
            /\ UNCHANGED boundary_wkt
       ELSE /\ pc' = "fetch"
            /\ boundary_wkt' = to_wkt(Boundary)
    /\ UNCHANGED <<cycle, location_method, address, clicked_point,
                   selected_categories, specific_amenity, Boundary, status,
                   outcome, assigned, idx, filtered_amenities,
                   all_amenities, cache, upstream_calls, fetch_log>>

\* lines 157-162: one iteration of the loop over selected_categories
LoadCategory ==
    /\ pc = "fetch"
    /\ ~loop_done(idx, selected_categories)
    /\ FetchStep(selected_categories[idx],
                 amenity_categories[selected_categories[idx]], "fetch")
    /\ UNCHANGED <<cycle, location_method, address, clicked_point,
                   selected_categories, specific_amenity, Boundary,
                   boundary_wkt, status, outcome, assigned,
                   all_amenities>>

\* lines 165-175: the specific amenity filter
LoadSpecific ==
    /\ pc = "fetch"
    /\ loop_done(idx, selected_categories)
    /\ FetchStep(specific_amenity, specific_tags(specific_amenity), "merge")
    /\ UNCHANGED <<cycle, location_method, address, clicked_point,
                   selected_categories, specific_amenity, Boundary,
                   boundary_wkt, status, outcome, assigned,
                   all_amenities>>

\* lines 179-187
Merge ==
    /\ pc = "merge"
    /\ all_amenities' = merge_amenities(filtered_amenities)
    /\ pc' = "done"
    /\ UNCHANGED <<cycle, location_method, address, clicked_point,
                   selected_categories, specific_amenity, Boundary,
                   boundary_wkt, status, outcome, assigned, idx,
                   filtered_amenities, cache, upstream_calls, fetch_log>>

\* A widget changes and Streamlit runs the script again from the top.  Only
\* the widget values and the memo table survive; the location widget of the
\* branch that is not rendered holds its default.
Rerun ==
    /\ pc \in {"done", "stopped", "error"}
    /\ cycle < MaxCycles
    /\ cycle' = cycle + 1
    /\ \E m \in {"Text Input", "Map Click"} :
           /\ location_method' = m
           /\ IF m = "Text Input"
              THEN /\ address' \in Addresses
                   /\ clicked_point' = NoClick
              ELSE /\ address' = default_address
                   /\ clicked_point' \in {NoClick} \cup {Click(p) : p \in ClickPoints}
    /\ selected_categories' \in Selections
    /\ specific_amenity' \in Range(specific_options)
    /\ Boundary' = initial_boundary(Boundary)
    /\ boundary_wkt' = Unset
    /\ status' = {}
    /\ outcome' = "none"
    /\ idx' = 1
    /\ filtered_amenities' = <<>>
    /\ all_amenities' = EmptyGeoDataFrame
    /\ fetch_log' = <<>>
    /\ pc' = "location"
    /\ assigned' = FALSE
    /\ UNCHANGED <<cache, upstream_calls>>

Next ==
    \/ TextInput
    \/ MapClick
    \/ BoundaryGate
    \/ LoadCategory
    \/ LoadSpecific
    \/ Merge
    \/ Rerun

Spec == Init /\ [][Next]_vars

-----------------------------------------------------------------------------
(* Properties *)

GeocodeWarning == "warning: Failed to geocode the address"

PastGate == pc \in {"fetch", "merge", "done"}

\* g is the buffer of radius r around (cx, cy): a polygon around the centre
\* with every vertex at distance r from it
IsCircle(g, cx, cy, r) ==
    /\ g.type = "Polygon"
    /\ Len(g.coords) > 3
    /\ Covers(g, <<cx, cy>>)
    /\ \A i \in 1..Len(g.coords) :
           (g.coords[i][1] - cx) * (g.coords[i][1] - cx)
             + (g.coords[i][2] - cy) * (g.coords[i][2] - cy) = r * r

LogNames == [i \in 1..Len(fetch_log) |-> fetch_log[i].name]

\* <<label, feature id>> of every row the fetches of this run returned, in
\* call order
RECURSIVE Labelled(_)
Labelled(log) ==
    IF log = <<>> THEN <<>>
    ELSE [i \in 1..Len(log[1].rows) |-> <<log[1].name, log[1].rows[i].id>>]
             \o Labelled(Tail(log))

ResultLabels ==
    [i \in 1..Len(all_amenities.rows) |->
        <<all_amenities.rows[i].category, all_amenities.rows[i].id>>]

RECURSIVE TotalRows(_)
TotalRows(log) ==
    IF log = <<>> THEN 0 ELSE Len(log[1].rows) + TotalRows(Tail(log))

C2_PointFallback ==
    outcome \in {"admin_empty", "admin_error"} =>
        /\ IsCircle(Boundary, clicked_point.lng, clicked_point.lat, BufferRadius)
        /\ pc \in {"gate", "fetch", "merge", "done"}
        /\ PastGate => wkt_loads(boundary_wkt) = Boundary
        /\ \A i \in 1..Len(fetch_log) :
               IsCircle(wkt_loads(fetch_log[i].key[1]), clicked_point.lng,
                        clicked_point.lat, BufferRadius)

C2_Witness ==
    /\ outcome = "admin_empty"
    /\ pc = "done"
    /\ all_amenities.rows # <<>>

\* C3: a fetch happens, and the run is past the gate, only if this run has
\* assigned a geometry to Boundary, and every fetch of the run uses the
\* serialization of that geometry; a run without a resolved location halts
\* before any fetch.
C3_NoFetchWithoutBoundary ==
    /\ (PastGate \/ fetch_log # <<>>) =>
           /\ assigned
           /\ Boundary # None
           /\ outcome \in {"geocode_ok", "admin_found", "admin_empty",
                           "admin_error"}
           /\ \A i \in 1..Len(fetch_log) : fetch_log[i].key[1] = to_wkt(Boundary)
    /\ outcome \in {"no_click", "geocode_fail"} =>
           /\ pc \in {"gate", "stopped"}
           /\ fetch_log = <<>>

C3_Witness ==
    /\ cycle > 1
    /\ outcome = "no_click"
    /\ pc = "stopped"
    /\ DOMAIN cache # {}

\* C4: every (boundary text, tag filter) key has been sent upstream at most
\* once, exactly the queried keys are stored, and every fetch of the run
\* returned what is stored under its key, also when the query failed.
C4_AtMostOneUpstreamQuery ==
    /\ DOMAIN upstream_calls = DOMAIN cache
    /\ \A k \in DOMAIN upstream_calls : upstream_calls[k] = 1
    /\ \A i \in 1..Len(fetch_log) :
           /\ fetch_log[i].key \in DOMAIN cache
           /\ fetch_log[i].rows = cache[fetch_log[i].key].rows
           /\ fetch_log[i].source = "error" => cache[fetch_log[i].key].rows = <<>>

C4_Witness ==
    /\ cycle > 1
    /\ Boundary = CityPolygon
    /\ \E i \in 1..Len(fetch_log) :
           /\ fetch_log[i].name = "FB (Food & Beverage)"
           /\ fetch_log[i].source = "cache"
           /\ fetch_log[i].rows = <<>>

\* C5: after an upstream failure the run is never aborted, the failed fetch
\* returned no rows, and once the run is done every filter has been fetched,
\* every row any fetch returned is in the result under that fetch's label.
C5_FetchFailureIsLocal ==
    (\E i \in 1..Len(fetch_log) : fetch_log[i].source = "error") =>
        /\ PastGate
        /\ \A i \in 1..Len(fetch_log) :
               fetch_log[i].source = "error" => fetch_log[i].rows = <<>>
        /\ pc = "done" =>
               /\ Len(fetch_log) = Len(selected_categories) + 1
               /\ \A i \in 1..Len(fetch_log) :
                      \A j \in 1..Len(fetch_log[i].rows) :
                          \E n \in 1..Len(all_amenities.rows) :
                              /\ all_amenities.rows[n].id = fetch_log[i].rows[j].id
                              /\ all_amenities.rows[n].category = fetch_log[i].name

C5_Witness ==
    /\ pc = "done"
    /\ Len(fetch_log) = 3
    /\ fetch_log[1].source = "error"
    /\ fetch_log[2].rows # <<>>
    /\ fetch_log[3].rows # <<>>
    /\ all_amenities.rows # <<>>

\* C6: the rows of the result are the rows of the first selected category,
\* then of the second, ..., then of the specific amenity, each block in the
\* order its fetch returned.
C6_OrderedByFetch ==
    pc = "done" =>
        /\ LogNames = selected_categories \o <<specific_amenity>>
        /\ ResultLabels = Labelled(fetch_log)

C6_Witness ==
    /\ pc = "done"
    /\ Len(selected_categories) = 2
    /\ Len(filtered_amenities) = 3
    /\ Len(filtered_amenities[1].rows) > 1

\* C7 as stated: when every fetch of the run is empty the result has no rows
\* and carries the columns category, x, y and geometry.
C7_EmptyWellFormed ==
    (pc = "done" /\ \A i \in 1..Len(fetch_log) : fetch_log[i].rows = <<>>) =>
        /\ all_amenities.rows = <<>>
        /\ {"category", "x", "y", "geometry"} \subseteq all_amenities.columns

\* C7 amended: when every fetch of the run is empty the result has no rows
\* and carries exactly the columns x and y.
C7_EmptyHasXY ==
    (pc = "done" /\ \A i \in 1..Len(fetch_log) : fetch_log[i].rows = <<>>) =>
        /\ all_amenities.rows = <<>>
        /\ all_amenities.columns = {"x", "y"}

C7_Witness ==
    /\ pc = "done"
    /\ selected_categories = <<>>
    /\ Len(fetch_log) = 1
    /\ fetch_log[1].rows = <<>>

\* C8: every row kept or aggregated is labelled with the name of a fetch of
\* this run that returned its feature, whatever category the upstream source
\* gave it; so every label is a selected category or the specific amenity.
C8_LabelFromFetch ==
    LET ok(row) ==
            /\ row.category \in Range(selected_categories) \cup {specific_amenity}
            /\ \E i \in 1..Len(fetch_log) :
                   /\ fetch_log[i].name = row.category
                   /\ \E j \in 1..Len(fetch_log[i].rows) :
                          fetch_log[i].rows[j].id = row.id
    IN  /\ \A k \in 1..Len(filtered_amenities) :
               /\ "category" \in filtered_amenities[k].columns
               /\ \A n \in 1..Len(filtered_amenities[k].rows) :
                      ok(filtered_amenities[k].rows[n])
        /\ \A n \in 1..Len(all_amenities.rows) : ok(all_amenities.rows[n])

C8_Witness ==
    /\ pc = "done"
    /\ \E i \in 1..Len(fetch_log) :
           \E j \in 1..Len(fetch_log[i].rows) :
               fetch_log[i].rows[j].category = "osm_food"
    /\ \E n \in 1..Len(all_amenities.rows) :
           /\ all_amenities.rows[n].id = 1
           /\ all_amenities.rows[n].category = "Restaurants"

\* C9: a run past the gate calls fetch once per selected category, in
\* selection order, then once for the specific amenity, each call with the
\* serialized boundary of the run and the filter of its name; before the gate
\* nothing is fetched.
C9_FetchSequence ==
    /\ pc \in {"merge", "done"} =>
           LogNames = selected_categories \o <<specific_amenity>>
    /\ pc = "fetch" =>
           /\ idx <= Len(selected_categories) + 1
           /\ LogNames = SubSeq(selected_categories, 1, idx - 1)
    /\ pc \in {"location", "gate", "stopped"} => fetch_log = <<>>
    /\ \A i \in 1..Len(fetch_log) :
           /\ fetch_log[i].key[1] = boundary_wkt
           /\ fetch_log[i].key[2] =
                  IF i <= Len(selected_categories)
                  THEN amenity_categories[selected_categories[i]]
                  ELSE specific_tags(specific_amenity)

C9_Witness ==
    /\ pc = "done"
    /\ Len(selected_categories) = 2
    /\ Len(fetch_log) = 3
    /\ location_method = "Map Click"

\* C10: the result has as many rows as all fetches of the run returned
\* together; a feature returned by two fetches appears once per fetch.
C10_NoDeduplication ==
    pc = "done" => Len(all_amenities.rows) = TotalRows(fetch_log)

C10_Witness ==
    /\ pc = "done"
    /\ \E m, n \in 1..Len(all_amenities.rows) :
           /\ all_amenities.rows[m].id = all_amenities.rows[n].id
           /\ all_amenities.rows[m].category = "FB (Food & Beverage)"
           /\ all_amenities.rows[n].category = "Restaurants"

=============================================================================
